---- MODULE Spec2Model ----
(***************************************************************************)
(* A model of the kernel's heap layer: the address-alignment arithmetic,   *)
(* the spin-lock wrapper Locked<A>, the bump allocator, the intrusive      *)
(* linked-list allocator, and init_heap; and of the VGA writer and the     *)
(* keyboard scancode queue.  The specifications share the state:           *)
(*   Spec         two contexts calling alloc and dealloc                   *)
(*   SpecCycle    one caller repeating alloc-then-dealloc (many_boxes)     *)
(*   SpecBoot     init_heap with its frame allocator and mapper            *)
(*   SpecReinit   one caller, with init called a second time               *)
(*   SpecAlign    align_up applied to any address and alignment            *)
(*   SpecList     the linked list under one caller; alloc_from_region      *)
(*   SpecVga      print! and println! on the WRITER                        *)
(*   SpecKeyboard add_scancode in the interrupt handler, poll_next         *)
(*   SpecAdd      add_free_region called with any address and size         *)
(*   SpecFrames   BootInfoFrameAllocator over any small memory map         *)
(*   SpecReuse    one caller; dealloc followed by alloc of its layout      *)
(*                                                                         *)
(* Addresses are scaled down: the heap window starts at HEAP_START and     *)
(* holds HeapUnits node footprints.  HEAP_START is a multiple of every     *)
(* alignment the model requests, as the kernel's window is (it is 64 KiB   *)
(* aligned), so align_up pads exactly as it does in the kernel.  Node      *)
(* footprint and node alignment keep their x86_64 values (16 and 8).       *)
(***************************************************************************)
EXTENDS Integers, Sequences, FiniteSets, Bags, TLC

\* ------------------------------------------------------------------ bounds

\* width of usize in the model
WordBits == 8
\* size of the heap window, in node footprints
HeapUnits == 3

\* --------------------------------------------------------------- constants

NULL == 0
HEAP_START == 64
\* mem::size_of::<ListNode>() and mem::align_of::<ListNode>() on x86_64
NodeSize == 16
NodeAlign == 8

HEAP_SIZE == HeapUnits * NodeSize
HEAP_END == HEAP_START + HEAP_SIZE
UsizeModulus == 2 ^ WordBits
UsizeMax == UsizeModulus - 1

Contexts == {"main", "irq"}
Strategies == {"bump", "linked_list"}

\* the layouts <<size, align>> the callers request; the last one is larger
\* than the whole heap
Layouts == {<<8, 8>>, <<24, 8>>, <<16, 16>>, <<HEAP_SIZE + 8, 8>>}

\* ------------------------------------------------------- alignment math

RECURSIVE BitAnd(_, _)
BitAnd(a, b) ==
    IF a = 0 \/ b = 0 THEN 0
    ELSE (a % 2) * (b % 2) + 2 * BitAnd(a \div 2, b \div 2)

BitNot(a) == UsizeMax - a

WrappingAdd(a, b) == (a + b) % UsizeModulus

\* a.checked_add(b): the sum, or -1 for None
CheckedAdd(a, b) == IF a + b > UsizeMax THEN -1 ELSE a + b

\* (addr + align - 1) & !(align - 1)
align_up(addr, align) ==
    BitAnd(WrappingAdd(addr, align - 1), BitNot(align - 1))

\* ------------------------------------------------------------------ state

VARIABLES
    strategy,     \* the strategy this build's ALLOCATOR static uses
    initCalls,    \* how many times the strategy's init has run
    bump,         \* BumpAllocator {heap_start, heap_end, next, allocations}
    head,         \* LinkedListAllocator.head.next: a node address or NULL
    mem,          \* the heap's node slots: address -> ListNode or NoNode
    locked,       \* spin::Mutex's lock flag inside Locked<A>
    pc,           \* per context: where it is inside alloc / dealloc
    ctx,          \* per context: the locals of the call in progress
    outstanding,  \* bag of the blocks handed out and not yet freed
    panicked,     \* an assertion or expect failed: the kernel halted
    cycle,        \* the many_boxes-style driver: its layout and counters
    memory_map,   \* the bootloader's memory map: a sequence of regions
    frameNext,    \* BootInfoFrameAllocator.next
    pageTable,    \* the mapper's page table: page -> entry or Unmapped
    needsTable,   \* the pages whose mapping needs a new page-table frame
    boot,         \* init_heap: its position, loop index and logs
    al,           \* one align_up call: its inputs, build profile and outcome
    rg,           \* one alloc_from_region call on its own: inputs and outcome
    writer,       \* vga_buffer::Writer {column_position, buffer.chars}
    writer_locked,\* the lock flag of the WRITER mutex
    kpc,          \* per context: where it is inside _print / add_scancode
    kctx,         \* per context: the macro called and the text it prints
    prints,       \* how many print! / println! calls the kernel code has made
    scancode_queue, \* SCANCODE_QUEUE: whether initialized, and the queued bytes
    waker         \* WAKER's stored waker; whether the task has been woken, and
                  \* whether its last poll_next returned Pending

allocVars ==
    <<strategy, initCalls, bump, head, mem, locked, pc, ctx, outstanding, panicked>>

cycleVars == <<cycle>>

bootVars == <<memory_map, frameNext, pageTable, needsTable, boot>>

\* the state of the parts that run apart from the allocator
alignVars == <<al, rg>>

vgaVars == <<writer, writer_locked, kpc, kctx, prints>>

kbdVars == <<scancode_queue, waker>>

extVars == <<alignVars, vgaVars, kbdVars>>

vars == <<allocVars, cycleVars, bootVars, extVars>>

\* the addresses at which a ListNode can be stored: NodeAlign-aligned, in the heap
NodeSlots == {a \in HEAP_START .. (HEAP_END - 1) : a % NodeAlign = 0}

NoNode == [size |-> 0, next |-> NULL, live |-> FALSE]

ListNode_new(size) == [size |-> size, next |-> NULL, live |-> TRUE]

start_addr(a) == a

end_addr(m, a) == start_addr(a) + m[a].size

NoCall ==
    [op |-> "none", lsize |-> 0, lalign |-> 0, size |-> 0, align |-> 0,
     ptr |-> NULL, region |-> NULL, rend |-> 0, result |-> NULL]

\* ------------------------------------------------------ LinkedListAllocator

LinkedListAllocator_new == [head |-> NULL, mem |-> [a \in NodeSlots |-> NoNode]]

\* add_free_region that forgets to chain the old list behind the new node
add_free_region_forget(h, m, addr, size) ==
    IF align_up(addr, NodeAlign) # addr \/ size < NodeSize
    THEN [panic |-> TRUE, head |-> h, mem |-> m]
    ELSE [panic |-> FALSE,
          head |-> addr,
          mem |-> [m EXCEPT ![addr] = ListNode_new(size)]]

\* add_free_region that writes the node and moves the head before it asserts
add_free_region_latecheck(h, m, addr, size) ==
    [panic |-> align_up(addr, NodeAlign) # addr \/ size < NodeSize,
     head |-> addr,
     mem |-> [a \in DOMAIN m |->
                 IF a = addr THEN [ListNode_new(size) EXCEPT !.next = h] ELSE m[a]]]

\* add_free_region that merges the new region with a first node that starts
\* where the new region ends
add_free_region_merge(h, m, addr, size) ==
    IF align_up(addr, NodeAlign) # addr \/ size < NodeSize
    THEN [panic |-> TRUE, head |-> h, mem |-> m]
    ELSE IF h # NULL /\ addr + size = h
    THEN [panic |-> FALSE,
          head |-> addr,
          mem |-> [m EXCEPT ![addr] = [ListNode_new(size + m[h].size) EXCEPT !.next = m[h].next],
                            ![h] = NoNode]]
    ELSE [panic |-> FALSE,
          head |-> addr,
          mem |-> [m EXCEPT ![addr] = [ListNode_new(size) EXCEPT !.next = h]]]

\* add_free_region: the two assertions, then the node is written at addr and
\* becomes the first node of the list
add_free_region(h, m, addr, size) ==
    IF align_up(addr, NodeAlign) # addr \/ size < NodeSize
    THEN [panic |-> TRUE, head |-> h, mem |-> m]
    ELSE [panic |-> FALSE,
          head |-> addr,
          mem |-> [m EXCEPT ![addr] = [ListNode_new(size) EXCEPT !.next = h]]]

\* alloc_from_region without the comparison against the region's end
alloc_from_region_noend(regionStart, regionEnd, size, align) ==
    LET alloc_start == align_up(regionStart, align)
        alloc_end == CheckedAdd(alloc_start, size)
    IN  IF alloc_end = -1 THEN -1 ELSE alloc_start

\* alloc_from_region that also rejects a region the allocation fills exactly
alloc_from_region_noexact(regionStart, regionEnd, size, align) ==
    LET alloc_start == align_up(regionStart, align)
        alloc_end == CheckedAdd(alloc_start, size)
    IN  IF alloc_end = -1 THEN -1
        ELSE IF alloc_end > regionEnd THEN -1
        ELSE IF regionEnd - alloc_end < NodeSize THEN -1
        ELSE alloc_start

\* alloc_from_region that accepts any tail left behind the allocation
alloc_from_region_notail(regionStart, regionEnd, size, align) ==
    LET alloc_start == align_up(regionStart, align)
        alloc_end == CheckedAdd(alloc_start, size)
    IN  IF alloc_end = -1 THEN -1
        ELSE IF alloc_end > regionEnd THEN -1
        ELSE alloc_start

\* alloc_from_region: the allocation's start address, or -1 for Err(())
alloc_from_region(regionStart, regionEnd, size, align) ==
    LET alloc_start == align_up(regionStart, align)
        alloc_end == CheckedAdd(alloc_start, size)
    IN  IF alloc_end = -1 THEN -1
        ELSE IF alloc_end > regionEnd THEN -1
        ELSE IF regionEnd - alloc_end > 0 /\ regionEnd - alloc_end < NodeSize THEN -1
        ELSE alloc_start

\* the loop of find_region: prev is the node whose next field is `current.next`
\* (NULL for the head sentinel), cur the node that field points to.  The node
\* that is unlinked passes to the caller, who overwrites it: its slot reads
\* NoNode from then on.  fuel bounds the walk (a list cannot be longer than
\* the heap has node slots).
RECURSIVE find_loop(_, _, _, _, _, _, _)
find_loop(h, m, prev, cur, size, align, fuel) ==
    IF cur = NULL \/ fuel = 0
    THEN [found |-> FALSE, region |-> NULL, rend |-> 0, alloc_start |-> NULL,
          head |-> h, mem |-> m]
    ELSE LET alloc_start == alloc_from_region(start_addr(cur), end_addr(m, cur), size, align)
         IN  IF alloc_start # -1
             THEN [found |-> TRUE,
                   region |-> cur,
                   rend |-> end_addr(m, cur),
                   alloc_start |-> alloc_start,
                   head |-> IF prev = NULL THEN m[cur].next ELSE h,
                   mem |-> IF prev = NULL
                           THEN [m EXCEPT ![cur] = NoNode]
                           ELSE [m EXCEPT ![prev].next = m[cur].next, ![cur] = NoNode]]
             ELSE find_loop(h, m, cur, m[cur].next, size, align, fuel - 1)

\* find_region that walks the list with take() and never puts the nodes back
find_region_take(h, m, size, align) ==
    LET r == find_loop(h, m, NULL, h, size, align, Cardinality(NodeSlots) + 1)
    IN  IF r.found THEN r ELSE [r EXCEPT !.head = NULL]

\* find_region that reports the node it found but leaves it on the list
find_region_nounlink(h, m, size, align) ==
    LET r == find_loop(h, m, NULL, h, size, align, Cardinality(NodeSlots) + 1)
    IN  [r EXCEPT !.head = h, !.mem = m]

find_region(h, m, size, align) ==
    find_loop(h, m, NULL, h, size, align, Cardinality(NodeSlots) + 1)

\* size_align without the max with size_of::<ListNode>()
size_align_nomin(lsize, lalign) ==
    LET align == IF lalign > NodeAlign THEN lalign ELSE NodeAlign
    IN  [size |-> align_up(lsize, align), align |-> align]

\* size_align: align_to(align_of::<ListNode>()), pad_to_align(), then max with
\* size_of::<ListNode>(); align_to cannot fail for the layouts requested here
size_align(lsize, lalign) ==
    LET align == IF lalign > NodeAlign THEN lalign ELSE NodeAlign
        padded == align_up(lsize, align)
    IN  [size |-> IF padded > NodeSize THEN padded ELSE NodeSize, align |-> align]

\* the free list, as the sequence of node addresses reached from the head
RECURSIVE list_from(_, _, _)
list_from(m, a, fuel) ==
    IF a = NULL \/ fuel = 0 THEN <<>>
    ELSE <<a>> \o list_from(m, m[a].next, fuel - 1)

FreeList == list_from(mem, head, Cardinality(NodeSlots) + 1)

\* ------------------------------------------------------------ BumpAllocator

BumpAllocator_new == [heap_start |-> 0, heap_end |-> 0, next |-> 0, allocations |-> 0]

bump_init(b, heap_start, heap_size) ==
    [b EXCEPT !.heap_start = heap_start,
              !.heap_end = heap_start + heap_size,
              !.next = heap_start]

\* bump_alloc without the comparison against heap_end
bump_alloc_noend(b, size, align) ==
    LET alloc_start == align_up(b.next, align)
        alloc_end == CheckedAdd(alloc_start, size)
    IN  IF alloc_end = -1
        THEN [result |-> NULL, bump |-> b]
        ELSE [result |-> alloc_start,
              bump |-> [b EXCEPT !.next = alloc_end, !.allocations = @ + 1]]

\* the allocation's start and the new state, or NULL and the state unchanged
bump_alloc(b, size, align) ==
    LET alloc_start == align_up(b.next, align)
        alloc_end == CheckedAdd(alloc_start, size)
    IN  IF alloc_end = -1 \/ alloc_end > b.heap_end
        THEN [result |-> NULL, bump |-> b]
        ELSE [result |-> alloc_start,
              bump |-> [b EXCEPT !.next = alloc_end, !.allocations = @ + 1]]

\* bump_dealloc that resets the free pointer one deallocation too early
bump_dealloc_early(b) ==
    LET n == b.allocations - 1
    IN  [b EXCEPT !.allocations = n,
                  !.next = IF n <= 1 THEN b.heap_start ELSE @]

bump_dealloc(b) ==
    LET n == b.allocations - 1
    IN  [b EXCEPT !.allocations = n,
                  !.next = IF n = 0 THEN b.heap_start ELSE @]

\* ---------------------------------------------------------------- Locked<A>

\* a lock() that takes the flag without looking at it
CanLock_always(isLocked) == TRUE

\* spin::Mutex::lock: the flag is taken only when it is free
CanLock(isLocked) == ~isLocked

\* which contexts are between lock() and the drop of the guard
HeldPcs == {"alloc_body", "alloc_excess", "dealloc_body", "ret"}
Holds(c) == pc[c] \in HeldPcs

\* the interrupted code does not run while the interrupt handler is active
CanRun(c) == ~panicked /\ (c = "main" => pc["irq"] = "idle")

\* ------------------------------------------------------ driver and boot state

NoBlock == [addr |-> NULL, lsize |-> 0, lalign |-> 0, size |-> 0]

NoCycle ==
    [mode |-> "off", layout |-> <<0, 0>>, prefix |-> 0, count |-> 0,
     len0 |-> 0, len1 |-> 0, block |-> NoBlock]

NoBoot ==
    [pc |-> "off", idx |-> 1, frame |-> -1, mapLog |-> <<>>, frameLog |-> <<>>,
     tableLog |-> <<>>, result |-> "none"]

BootIdle ==
    /\ memory_map = <<>>
    /\ frameNext = 0
    /\ pageTable = <<>>
    /\ needsTable = {}
    /\ boot = NoBoot

NoAlign ==
    [pc |-> "off", addr |-> 0, align |-> 1, overflow_checks |-> FALSE,
     panicked |-> FALSE, result |-> 0, again |-> 0]

NoRegion ==
    [pc |-> "off", start |-> 0, rend |-> 0, size |-> 0, align |-> 1,
     overflow_checks |-> FALSE, result |-> -1]

AlignIdle ==
    /\ al = NoAlign
    /\ rg = NoRegion

NEWLINE == 10
BLANK == 32
UNPRINTABLE == 254
BUFFER_HEIGHT == 3
BUFFER_WIDTH == 2

NoPrint == [op |-> "none", text |-> <<>>]

\* the WRITER static: column 0; the screen is taken to be blank at boot
Writer_new ==
    [column_position |-> 0,
     chars |-> [row \in 0 .. BUFFER_HEIGHT - 1 |-> [col \in 0 .. BUFFER_WIDTH - 1 |-> BLANK]]]

VgaIdle ==
    /\ writer = Writer_new
    /\ writer_locked = FALSE
    /\ kpc = [c \in Contexts |-> "idle"]
    /\ kctx = [c \in Contexts |-> NoPrint]
    /\ prints = 0

\* SCANCODE_QUEUE: OnceCell::uninit(), WAKER: AtomicWaker::new()
KbdIdle ==
    /\ scancode_queue = [init |-> FALSE, items |-> <<>>]
    /\ waker = [registered |-> FALSE, woken |-> FALSE, pending |-> FALSE]

ExtIdle ==
    /\ AlignIdle
    /\ VgaIdle
    /\ KbdIdle

\* ------------------------------------------------------------------ actions

\* the allocator right after ALLOCATOR's const constructor ran
AllocInit ==
    /\ strategy \in Strategies
    /\ initCalls = 0
    /\ bump = BumpAllocator_new
    /\ head = LinkedListAllocator_new.head
    /\ mem = LinkedListAllocator_new.mem
    /\ locked = FALSE
    /\ pc = [c \in Contexts |-> "idle"]
    /\ ctx = [c \in Contexts |-> NoCall]
    /\ outstanding = EmptyBag
    /\ panicked = FALSE

\* ALLOCATOR.lock().init(HEAP_START, HEAP_SIZE), the last statement of init_heap
StrategyInit(start, size) ==
    /\ CanLock(locked)
    /\ initCalls' = initCalls + 1
    /\ IF strategy = "bump"
       THEN /\ bump' = bump_init(bump, start, size)
            /\ UNCHANGED <<head, mem, panicked>>
       ELSE LET r == add_free_region(head, mem, start, size)
            IN  /\ head' = r.head
                /\ mem' = r.mem
                /\ panicked' = r.panic
                /\ UNCHANGED bump
    /\ UNCHANGED <<strategy, locked, pc, ctx, outstanding>>

HeapInit ==
    /\ ~panicked
    /\ initCalls = 0
    /\ StrategyInit(HEAP_START, HEAP_SIZE)

\* a context enters GlobalAlloc::alloc(layout)
CallAlloc(c, layout) ==
    /\ CanRun(c)
    /\ initCalls > 0
    /\ pc[c] = "idle"
    /\ LET sa == IF strategy = "bump"
                 THEN [size |-> layout[1], align |-> layout[2]]
                 ELSE size_align(layout[1], layout[2])
       IN  ctx' = [ctx EXCEPT ![c] =
                     [NoCall EXCEPT !.op = "alloc", !.lsize = layout[1], !.lalign = layout[2],
                                    !.size = sa.size, !.align = sa.align]]
    /\ pc' = [pc EXCEPT ![c] = "lock"]
    /\ UNCHANGED <<strategy, initCalls, bump, head, mem, locked, outstanding, panicked>>

\* a context enters GlobalAlloc::dealloc(ptr, layout) with a block it was handed
CallDealloc(c, b) ==
    /\ CanRun(c)
    /\ initCalls > 0
    /\ pc[c] = "idle"
    /\ BagIn(b, outstanding)
    /\ outstanding' = outstanding (-) SetToBag({b})
    /\ LET sa == IF strategy = "bump"
                 THEN [size |-> b.lsize, align |-> b.lalign]
                 ELSE size_align(b.lsize, b.lalign)
       IN  ctx' = [ctx EXCEPT ![c] =
                     [NoCall EXCEPT !.op = "dealloc", !.lsize = b.lsize, !.lalign = b.lalign,
                                    !.size = sa.size, !.align = sa.align, !.ptr = b.addr]]
    /\ pc' = [pc EXCEPT ![c] = "lock"]
    /\ UNCHANGED <<strategy, initCalls, bump, head, mem, locked, panicked>>

\* self.lock(): spin until the flag is free, then take it
Lock(c) ==
    /\ CanRun(c)
    /\ pc[c] = "lock"
    /\ IF CanLock(locked)
       THEN /\ locked' = TRUE
            /\ pc' = [pc EXCEPT ![c] =
                        IF ctx[c].op = "alloc" THEN "alloc_body" ELSE "dealloc_body"]
       ELSE UNCHANGED <<locked, pc>>
    /\ UNCHANGED <<strategy, initCalls, bump, head, mem, ctx, outstanding, panicked>>

Block(c, addr) ==
    [addr |-> addr, lsize |-> ctx[c].lsize, lalign |-> ctx[c].lalign, size |-> ctx[c].size]

\* alloc under the lock: the bump allocation, or the linked list's find_region
AllocBody(c) ==
    /\ CanRun(c)
    /\ pc[c] = "alloc_body"
    /\ IF strategy = "bump"
       THEN LET r == bump_alloc(bump, ctx[c].size, ctx[c].align)
            IN  /\ bump' = r.bump
                /\ ctx' = [ctx EXCEPT ![c].result = r.result]
                /\ pc' = [pc EXCEPT ![c] = "ret"]
                /\ outstanding' = IF r.result = NULL THEN outstanding
                                  ELSE outstanding (+) SetToBag({Block(c, r.result)})
                /\ UNCHANGED <<head, mem>>
       ELSE LET r == find_region(head, mem, ctx[c].size, ctx[c].align)
            IN  /\ head' = r.head
                /\ mem' = r.mem
                /\ IF r.found
                   THEN /\ ctx' = [ctx EXCEPT ![c].region = r.region, ![c].rend = r.rend,
                                              ![c].result = r.alloc_start]
                        /\ pc' = [pc EXCEPT ![c] = "alloc_excess"]
                   ELSE /\ ctx' = [ctx EXCEPT ![c].result = NULL]
                        /\ pc' = [pc EXCEPT ![c] = "ret"]
                /\ UNCHANGED <<bump, outstanding>>
    /\ UNCHANGED <<strategy, initCalls, locked, panicked>>

\* linked-list alloc after find_region: the excess goes back on the list
AllocExcess(c) ==
    /\ CanRun(c)
    /\ pc[c] = "alloc_excess"
    /\ LET alloc_end == CheckedAdd(ctx[c].result, ctx[c].size)
           excess_size == ctx[c].rend - alloc_end
           r == IF excess_size > 0
                THEN add_free_region(head, mem, alloc_end, excess_size)
                ELSE [panic |-> FALSE, head |-> head, mem |-> mem]
       IN  IF alloc_end = -1 \/ r.panic
           THEN /\ panicked' = TRUE
                /\ UNCHANGED <<head, mem, pc, outstanding>>
           ELSE /\ head' = r.head
                /\ mem' = r.mem
                /\ outstanding' = outstanding (+) SetToBag({Block(c, ctx[c].result)})
                /\ pc' = [pc EXCEPT ![c] = "ret"]
                /\ UNCHANGED panicked
    /\ UNCHANGED <<strategy, initCalls, bump, locked, ctx>>

\* dealloc under the lock
DeallocBody(c) ==
    /\ CanRun(c)
    /\ pc[c] = "dealloc_body"
    /\ IF strategy = "bump"
       THEN /\ bump' = bump_dealloc(bump)
            /\ pc' = [pc EXCEPT ![c] = "ret"]
            /\ UNCHANGED <<head, mem, panicked>>
       ELSE LET r == add_free_region(head, mem, ctx[c].ptr, ctx[c].size)
            IN  /\ head' = r.head
                /\ mem' = r.mem
                /\ panicked' = r.panic
                /\ pc' = [pc EXCEPT ![c] = IF r.panic THEN @ ELSE "ret"]
                /\ UNCHANGED bump
    /\ UNCHANGED <<strategy, initCalls, locked, ctx, outstanding>>

\* a guard that is leaked when alloc returns null
guard_drop_leak(c) == ctx[c].op = "alloc" /\ ctx[c].result = NULL

\* the lock flag once the MutexGuard of c's call is dropped at the end of its scope
guard_drop(c) == FALSE

\* the call returns

Return(c) ==
    /\ CanRun(c)
    /\ pc[c] = "ret"
    /\ locked' = guard_drop(c)
    /\ pc' = [pc EXCEPT ![c] = "idle"]
    /\ ctx' = [ctx EXCEPT ![c] = NoCall]
    /\ UNCHANGED <<strategy, initCalls, bump, head, mem, outstanding, panicked>>

AllocNext ==
    \/ HeapInit
    \/ \E c \in Contexts, l \in Layouts : CallAlloc(c, l)
    \/ \E c \in Contexts, b \in BagToSet(outstanding) : CallDealloc(c, b)
    \/ \E c \in Contexts : Lock(c)
    \/ \E c \in Contexts : AllocBody(c)
    \/ \E c \in Contexts : AllocExcess(c)
    \/ \E c \in Contexts : DeallocBody(c)
    \/ \E c \in Contexts : Return(c)

\* ------------------------------------------------- the allocator under load

Init ==
    /\ AllocInit
    /\ cycle = NoCycle
    /\ BootIdle
    /\ ExtIdle

Next == AllocNext /\ UNCHANGED <<cycleVars, bootVars, extVars>>

Spec == Init /\ [][Next]_vars

\* ---------------------------------------- one caller, cycles of alloc/dealloc

\* how many blocks the driver may allocate and keep before it starts cycling
MaxPrefix == 2
\* how many alloc-then-dealloc cycles the driver runs
MaxCycles == 4

\* the layout of which exactly two blocks fill the heap
TwoBlockLayout == <<HEAP_SIZE \div 2, NodeAlign>>

CycleLayouts == (Layouts \ {<<HEAP_SIZE + 8, 8>>}) \cup {TwoBlockLayout}

CycleInit ==
    /\ AllocInit
    /\ cycle = [NoCycle EXCEPT !.mode = "prefix"]
    /\ BootIdle
    /\ ExtIdle

CycleHeapInit ==
    /\ HeapInit
    /\ UNCHANGED <<cycleVars, bootVars, extVars>>

\* before the cycles: allocate a block and keep it
CyclePrefix ==
    /\ cycle.mode = "prefix"
    /\ cycle.prefix < MaxPrefix
    /\ \E l \in Layouts : CallAlloc("main", l)
    /\ cycle' = [cycle EXCEPT !.prefix = @ + 1]
    /\ UNCHANGED <<bootVars, extVars>>

\* fix the layout of the cycles; len0 is the free list's length before the first
CycleStart ==
    /\ cycle.mode = "prefix"
    /\ initCalls > 0
    /\ pc["main"] = "idle"
    /\ \E l \in CycleLayouts :
          cycle' = [cycle EXCEPT !.mode = "loop", !.layout = l, !.len0 = Len(FreeList)]
    /\ UNCHANGED <<allocVars, bootVars, extVars>>

\* let x = Box::new(i)
CycleAlloc ==
    /\ cycle.mode = "loop"
    /\ cycle.block = NoBlock
    /\ cycle.count < MaxCycles
    /\ CallAlloc("main", cycle.layout)
    /\ UNCHANGED <<cycleVars, bootVars, extVars>>

\* x goes out of scope
CycleDealloc ==
    /\ cycle.mode = "loop"
    /\ cycle.block # NoBlock
    /\ CallDealloc("main", cycle.block)
    /\ UNCHANGED <<cycleVars, bootVars, extVars>>

CycleStep ==
    /\ \/ Lock("main")
       \/ AllocBody("main")
       \/ AllocExcess("main")
       \/ DeallocBody("main")
    /\ UNCHANGED <<cycleVars, bootVars, extVars>>

\* the call returns to the driver: a null block ends the run (Box::new aborts)
CycleReturn ==
    /\ Return("main")
    /\ cycle' =
         IF cycle.mode # "loop" THEN cycle
         ELSE IF ctx["main"].op = "alloc"
         THEN IF ctx["main"].result = NULL
              THEN [cycle EXCEPT !.mode = "failed"]
              ELSE [cycle EXCEPT !.block = Block("main", ctx["main"].result)]
         ELSE [cycle EXCEPT !.count = @ + 1,
                            !.block = NoBlock,
                            !.len1 = IF cycle.count = 0 THEN Len(FreeList) ELSE @]
    /\ UNCHANGED <<bootVars, extVars>>

CycleNext ==
    \/ CycleHeapInit
    \/ CyclePrefix
    \/ CycleStart
    \/ CycleAlloc
    \/ CycleDealloc
    \/ CycleStep
    \/ CycleReturn

SpecCycle == CycleInit /\ [][CycleNext]_vars

\* ---------------------------------------------------------------- init_heap

\* Size4KiB, scaled like the heap window
PAGE_SIZE == 16
\* the frames of the largest memory map
MaxFrames == 8

PRESENT_WRITABLE == {"PRESENT", "WRITABLE"}

Unmapped == [frame |-> -1, flags |-> {}]

\* Page::containing_address / PhysFrame::containing_address
containing_address(addr) == addr \div PAGE_SIZE

RECURSIVE range_inclusive(_, _)
range_inclusive(first, last) ==
    IF first > last THEN <<>> ELSE <<first>> \o range_inclusive(first + 1, last)

\* a page range that stops one page short of the heap's last page
page_range_short ==
    LET heap_start == HEAP_START
        heap_end == heap_start + HEAP_SIZE - 1
    IN  range_inclusive(containing_address(heap_start), containing_address(heap_end) - 1)

\* the pages init_heap maps, in the order of its loop
page_range ==
    LET heap_start == HEAP_START
        heap_end == heap_start + HEAP_SIZE - 1
    IN  range_inclusive(containing_address(heap_start), containing_address(heap_end))

\* the pages of the model's address space: the heap's and those around it
AllPages == 0 .. (containing_address(HEAP_END) + 1)

Region(first, last, usable) ==
    [start |-> first * PAGE_SIZE, end |-> last * PAGE_SIZE, usable |-> usable]

\* the memory maps the bootloader may pass: none usable, too few usable
\* frames, enough in one region, enough in two regions around a reserved one
MemoryMaps ==
    { <<Region(0, 4, FALSE)>>,
      <<Region(0, 2, FALSE), Region(2, 4, TRUE)>>,
      <<Region(1, 1 + MaxFrames, TRUE)>>,
      <<Region(0, 2, TRUE), Region(2, 3, FALSE), Region(3, 1 + MaxFrames, TRUE)>> }

\* r.step_by(4096) over start..end, each address turned into its frame
RECURSIVE region_frames(_, _)
region_frames(addr, end) ==
    IF addr >= end THEN <<>>
    ELSE <<containing_address(addr)>> \o region_frames(addr + PAGE_SIZE, end)

\* BootInfoFrameAllocator::usable_frames
RECURSIVE usable_frames(_)
usable_frames(map) ==
    IF map = <<>> THEN <<>>
    ELSE (IF Head(map).usable THEN region_frames(Head(map).start, Head(map).end) ELSE <<>>)
         \o usable_frames(Tail(map))

\* allocate_frame that does not advance next
allocate_frame_stay(map, next) ==
    LET frames == usable_frames(map)
    IN  [frame |-> IF next < Len(frames) THEN frames[next + 1] ELSE -1,
         next |-> next]

\* BootInfoFrameAllocator::allocate_frame: usable_frames().nth(next), then
\* next += 1; -1 stands for None
allocate_frame(map, next) ==
    LET frames == usable_frames(map)
    IN  [frame |-> IF next < Len(frames) THEN frames[next + 1] ELSE -1,
         next |-> next + 1]

BootInit ==
    /\ AllocInit
    /\ cycle = NoCycle
    /\ memory_map \in MemoryMaps
    /\ frameNext = 0
    /\ \E pre \in SUBSET AllPages, entry \in {{"PRESENT"}, {"PRESENT", "HUGE_PAGE"}} :
          /\ Cardinality(pre) <= 1
          /\ pageTable = [p \in AllPages |->
                            IF p \in pre THEN [frame |-> 0, flags |-> entry]
                            ELSE Unmapped]
    /\ needsTable \in SUBSET {page_range[i] : i \in 1 .. Len(page_range)}
    /\ boot = [NoBoot EXCEPT !.pc = "alloc_frame"]
    /\ ExtIdle

\* the ? operator with the error swallowed: the loop goes on
fail_continue(b, err) == [b EXCEPT !.result = err]

\* the ? operator on an Err: init_heap returns the error at once
fail(b, err) == [b EXCEPT !.pc = "done", !.result = err]

\* frame_allocator.allocate_frame().ok_or(MapToError::FrameAllocationFailed)?
BootAllocFrame ==
    /\ boot.pc = "alloc_frame"
    /\ LET r == allocate_frame(memory_map, frameNext)
       IN  /\ frameNext' = r.next
           /\ boot' = IF r.frame = -1
                      THEN fail(boot, "FrameAllocationFailed")
                      ELSE [boot EXCEPT !.pc = "map_to", !.frame = r.frame,
                                        !.frameLog = Append(@, r.frame)]
    /\ UNCHANGED <<allocVars, cycleVars, memory_map, pageTable, needsTable, extVars>>

\* mapper.map_to(page, frame, flags, frame_allocator)?.flush(): the mapper
\* refuses a page under a huge parent entry, takes a frame for a missing page
\* table, then refuses a page that is already mapped
BootMapTo ==
    /\ boot.pc = "map_to"
    /\ LET page == page_range[boot.idx]
           huge == pageTable[page] # Unmapped /\ "HUGE_PAGE" \in pageTable[page].flags
           t == IF page \in needsTable /\ ~huge
                THEN allocate_frame(memory_map, frameNext)
                ELSE [frame |-> 0, next |-> frameNext]
           tables == IF page \in needsTable /\ ~huge
                     THEN Append(boot.tableLog, t.frame)
                     ELSE boot.tableLog
           next_pc == IF boot.idx = Len(page_range) THEN "init" ELSE "alloc_frame"
       IN  /\ frameNext' = t.next
           /\ IF huge
              THEN /\ boot' = fail(boot, "ParentEntryHugePage")
                   /\ UNCHANGED pageTable
              ELSE IF t.frame = -1
              THEN /\ boot' = fail(boot, "FrameAllocationFailed")
                   /\ UNCHANGED pageTable
              ELSE IF pageTable[page] # Unmapped
              THEN /\ boot' = fail([boot EXCEPT !.tableLog = tables], "PageAlreadyMapped")
                   /\ UNCHANGED pageTable
              ELSE /\ pageTable' = [pageTable EXCEPT ![page] =
                                      [frame |-> boot.frame, flags |-> PRESENT_WRITABLE]]
                   /\ boot' = [boot EXCEPT !.pc = next_pc,
                                           !.idx = @ + 1,
                                           !.mapLog = Append(@, page),
                                           !.tableLog = tables]
    /\ UNCHANGED <<allocVars, cycleVars, memory_map, needsTable, extVars>>

\* unsafe { ALLOCATOR.lock().init(HEAP_START, HEAP_SIZE) }; Ok(())
BootStrategyInit ==
    /\ boot.pc = "init"
    /\ StrategyInit(HEAP_START, HEAP_SIZE)
    /\ boot' = [boot EXCEPT !.pc = "done", !.result = "Ok"]
    /\ UNCHANGED <<cycleVars, memory_map, frameNext, pageTable, needsTable, extVars>>

BootNext ==
    \/ BootAllocFrame
    \/ BootMapTo
    \/ BootStrategyInit

SpecBoot == BootInit /\ [][BootNext]_vars

\* ----------------------------------------------------------------- helpers

Outstanding == BagToSet(outstanding)

Disjoint(b1, b2) == b1.addr + b1.size <= b2.addr \/ b2.addr + b2.size <= b1.addr

RECURSIVE SumSizes(_, _)
SumSizes(m, list) ==
    IF list = <<>> THEN 0 ELSE m[Head(list)].size + SumSizes(m, Tail(list))

\* the bytes the allocator still has to give
FreeCapacity ==
    IF strategy = "bump" THEN bump.heap_end - bump.next ELSE SumSizes(mem, FreeList)

Holders == {c \in Contexts : Holds(c)}

\* ------------------------------------------------------------------ claims

\* C1: for either strategy, any two blocks that are outstanding at the same
\* time occupy disjoint address ranges [addr, addr + size), and no block is
\* handed out twice.
C1_NoOverlap ==
    \A b1, b2 \in Outstanding :
        /\ CopiesIn(b1, outstanding) = 1
        /\ b1 # b2 => Disjoint(b1, b2)

C1_Witness ==
    /\ strategy = "linked_list"
    /\ Cardinality(Outstanding) >= 2
    /\ head # NULL

\* C2: bump allocator: a dealloc that leaves allocations above zero leaves
\* next unchanged, the dealloc that brings allocations to zero sets next to
\* heap_start, and a successful alloc is placed at or above the old next, so
\* never inside space freed since the last reset.
C2_BumpFree ==
    [][strategy = "bump" =>
        \A c \in Contexts :
            /\ (pc[c] = "dealloc_body" /\ pc'[c] = "ret") =>
                  /\ bump'.allocations = bump.allocations - 1
                  /\ IF bump.allocations > 1
                     THEN bump'.next = bump.next
                     ELSE bump'.next = bump.heap_start
            /\ (pc[c] = "alloc_body" /\ pc'[c] = "ret" /\ ctx'[c].result # NULL) =>
                  /\ ctx'[c].result >= bump.next
                  /\ bump'.next >= bump.next]_vars

C2_Witness ==
    \E c \in Contexts :
        /\ strategy = "bump"
        /\ pc[c] = "ret"
        /\ ctx[c].op = "dealloc"
        /\ bump.allocations >= 1
        /\ bump.next > bump.heap_start

\* C3: bump allocator: heap_start <= next <= heap_end, allocations >= 0, and
\* allocations = 0 implies next = heap_start, in every reachable state.
C3_BumpInvariant ==
    strategy = "bump" =>
        /\ bump.heap_start <= bump.next
        /\ bump.next <= bump.heap_end
        /\ bump.allocations >= 0
        /\ bump.allocations = 0 => bump.next = bump.heap_start

C3_Witness ==
    /\ strategy = "bump"
    /\ bump.allocations >= 2
    /\ bump.next = bump.heap_end
    /\ bump.heap_end = HEAP_END

MutualExclusion ==
    /\ Cardinality(Holders) <= 1
    /\ locked <=> Holders # {}

\* C7: at most one context at a time is inside the allocator state, and while
\* a context is inside (between find_region and the re-insertion of the excess
\* included) no step of another context changes the allocator state.
C7_Serialized ==
    /\ MutualExclusion
    /\ [][/\ MutualExclusion'
          /\ \A c \in Contexts :
                (Holds(c) /\ pc'[c] = pc[c]) => UNCHANGED <<bump, head, mem>>]_vars

C7_Witness ==
    /\ pc["main"] = "alloc_excess"
    /\ pc["irq"] = "lock"
    /\ locked

\* C8: when the interrupted code holds the lock and the interrupt handler
\* calls alloc or dealloc, the handler spins in lock() and no step changes
\* anything from then on: neither context progresses.
C8_Deadlock ==
    [][(Holds("main") /\ pc["irq"] = "lock") => UNCHANGED allocVars]_vars

C8_Witness ==
    /\ Holds("main")
    /\ pc["irq"] = "lock"
    /\ ctx["irq"].op = "dealloc"

\* the lock is held only by a call in progress, and a lock() made while no
\* call holds the lock can take it
LockFreeWhenIdle ==
    /\ locked => \E c \in Contexts : Holds(c)
    /\ \A c \in Contexts :
          (pc[c] = "lock" /\ CanRun(c) /\ Holders = {}) => ENABLED <<Lock(c)>>_pc

\* C9: whenever no call is in progress the lock is free, so that a lock() made
\* then can take it, and every return from alloc or dealloc, with a block or
\* with null, leaves the lock free.
C9_Released ==
    /\ LockFreeWhenIdle
    /\ [][/\ LockFreeWhenIdle'
          /\ \A c \in Contexts : (pc[c] = "ret" /\ pc'[c] = "idle") => ~locked']_vars

C9_Witness ==
    \E c \in Contexts :
        /\ pc[c] = "ret"
        /\ ctx[c].op = "alloc"
        /\ ctx[c].result = NULL
        /\ locked

\* the driver is between two cycles, having completed at least one
BetweenCycles ==
    /\ cycle.mode = "loop"
    /\ cycle.count >= 1
    /\ cycle.block = NoBlock
    /\ pc["main"] = "idle"

\* the driver cycles one block of which exactly two fill the fresh heap
TwoBlockRun ==
    /\ strategy = "linked_list"
    /\ cycle.prefix = 0
    /\ cycle.layout = TwoBlockLayout

\* C5: once a block of the cycle's layout has been allocated and freed, every
\* later alloc of the same layout succeeds, however many cycles are run: for
\* the linked-list allocator whatever else is outstanding, for the bump
\* allocator when nothing else is outstanding (the many_boxes pattern).
C5_ReuseSucceeds ==
    (cycle.mode = "failed" /\ (strategy = "linked_list" \/ outstanding = EmptyBag))
        => cycle.count = 0

C5_Witness ==
    /\ strategy = "linked_list"
    /\ cycle.mode = "loop"
    /\ cycle.count = MaxCycles
    /\ cycle.count * size_align(cycle.layout[1], cycle.layout[2]).size > HEAP_SIZE
    /\ Cardinality(Outstanding) = 1

\* C6, as stated: after every cycle the free list has as many nodes as before
\* the first cycle.
C6_LengthReturnsToStart ==
    (TwoBlockRun /\ BetweenCycles) => Len(FreeList) = cycle.len0

\* C6, amended: the first cycle splits the initial region in two nodes that
\* are never merged, so the list has one node more than before the first
\* cycle; after every later cycle it has again as many nodes as after the first.
C6_LengthStableAfterFirst ==
    (TwoBlockRun /\ BetweenCycles) =>
        /\ cycle.len0 = 1
        /\ cycle.len1 = cycle.len0 + 1
        /\ Len(FreeList) = cycle.len1

C6_Witness ==
    /\ TwoBlockRun
    /\ BetweenCycles
    /\ cycle.count = MaxCycles

\* the pages that overlap [HEAP_START, HEAP_START + HEAP_SIZE), by definition
HeapPages ==
    {p \in AllPages : p * PAGE_SIZE < HEAP_START + HEAP_SIZE /\ (p + 1) * PAGE_SIZE > HEAP_START}

Ascending(seq) == \A i, j \in 1 .. Len(seq) : i < j => seq[i] < seq[j]

Injective(seq) == \A i, j \in 1 .. Len(seq) : i # j => seq[i] # seq[j]

\* the strategy was initialized with exactly the heap window
InitializedWithWindow ==
    IF strategy = "bump"
    THEN bump.heap_start = HEAP_START /\ bump.heap_end = HEAP_START + HEAP_SIZE
         /\ bump.next = HEAP_START
    ELSE FreeList = <<HEAP_START>> /\ mem[HEAP_START].size = HEAP_SIZE

\* C10: the pages are mapped in ascending order, each once and each with the
\* frame requested for it; the strategy's init runs only when every page that
\* overlaps the heap window is mapped present+writable, it is given the
\* window's bounds, and when init_heap returns Ok it has run exactly once.
C10_MapAllThenInit ==
    /\ Ascending(boot.mapLog)
    /\ \A i \in 1 .. Len(boot.mapLog) :
          /\ boot.mapLog[i] \in HeapPages
          /\ pageTable[boot.mapLog[i]] =
                [frame |-> boot.frameLog[i], flags |-> PRESENT_WRITABLE]
    /\ Injective(boot.frameLog \o boot.tableLog)
    /\ Len(boot.mapLog) <= Len(boot.frameLog)
    /\ Len(boot.frameLog) <= Len(boot.mapLog) + 1
    /\ initCalls <= 1
    /\ initCalls = 1 =>
          /\ {boot.mapLog[i] : i \in 1 .. Len(boot.mapLog)} = HeapPages
          /\ InitializedWithWindow
    /\ boot.result = "Ok" <=> initCalls = 1

C10_Witness ==
    /\ boot.result = "Ok"
    /\ initCalls = 1
    /\ Len(boot.mapLog) = Cardinality(HeapPages)
    /\ needsTable # {}


BootFailed == boot.result \notin {"none", "Ok"}

\* the frame source has answered None: next has moved past the last usable frame
FrameSourceEmpty == frameNext > Len(usable_frames(memory_map))

\* C11: when the frame source returns no frame or the mapper fails for a
\* page, init_heap returns an error at once: the failing step maps nothing,
\* nothing is mapped and no frame is requested afterwards, the strategy's init
\* is never invoked so the allocator stays as constructed, and the error is
\* FrameAllocationFailed exactly when a frame request came back empty, while a
\* refused page gives PageAlreadyMapped or ParentEntryHugePage.
C11_FailFast ==
    [][/\ (~BootFailed /\ BootFailed') =>
              /\ pageTable' = pageTable
              /\ boot'.mapLog = boot.mapLog
       /\ BootFailed =>
              /\ pageTable' = pageTable
              /\ frameNext' = frameNext
              /\ boot' = boot
       /\ BootFailed' =>
              /\ initCalls' = 0
              /\ bump' = BumpAllocator_new
              /\ head' = NULL
              /\ ~locked'
       /\ (boot'.result = "FrameAllocationFailed") <=> FrameSourceEmpty'
       /\ boot'.result \in {"PageAlreadyMapped", "ParentEntryHugePage"} =>
              /\ pageTable[page_range[boot.idx]] # Unmapped
              /\ ("HUGE_PAGE" \in pageTable[page_range[boot.idx]].flags)
                    <=> (boot'.result = "ParentEntryHugePage")
      ]_vars

C11_Witness ==
    /\ boot.result = "PageAlreadyMapped"
    /\ boot.pc = "done"
    /\ Len(boot.mapLog) >= 1
    /\ boot.tableLog # <<>>


\* ------------------------------------------------ init called a second time

\* a second ALLOCATOR.lock().init(HEAP_START, HEAP_SIZE) between two calls
SecondInit ==
    /\ ~panicked
    /\ initCalls = 1
    /\ pc["main"] = "idle"
    /\ StrategyInit(HEAP_START, HEAP_SIZE)

ReinitInit ==
    /\ Init
    /\ strategy = "linked_list"

ReinitNext ==
    /\ \/ HeapInit
       \/ SecondInit
       \/ \E l \in Layouts : CallAlloc("main", l)
       \/ \E b \in BagToSet(outstanding) : CallDealloc("main", b)
       \/ Lock("main")
       \/ AllocBody("main")
       \/ AllocExcess("main")
       \/ DeallocBody("main")
       \/ Return("main")
    /\ UNCHANGED <<cycleVars, bootVars, extVars>>

SpecReinit == ReinitInit /\ [][ReinitNext]_vars

\* C12: a second call of the active strategy's init is a fatal invariant
\* violation: the call halts the kernel and leaves the allocator state (the
\* list head and every node) as it was.
C12_SecondInitHalts ==
    [][(initCalls = 1 /\ initCalls' = 2) =>
          /\ panicked'
          /\ head' = head
          /\ mem' = mem]_vars


\* ------------------------------------------------------- align_up on its own

\* the alignments a Layout can carry: the powers of two of the word
RECURSIVE PowersOfTwo(_)
PowersOfTwo(n) == IF n = 0 THEN {1} ELSE {2 ^ n} \cup PowersOfTwo(n - 1)

Alignments == PowersOfTwo(WordBits - 1)

\* addr + align - 1 is evaluated left to right: addr + align leaves the word
\* when it exceeds usize::MAX, and a build with overflow checks panics there
align_up_overflows(addr, align) == addr + align > UsizeMax

\* the remainder-based align_up kept in the source as a comment, over the
\* integers
align_up_reference(addr, align) ==
    LET remainder == addr % align
    IN  IF remainder = 0 THEN addr ELSE addr - remainder + align

\* the smallest multiple of align that is >= addr
SmallestMultiple(addr, align) ==
    CHOOSE m \in addr .. addr + align - 1 : m % align = 0

AlignInit ==
    /\ AllocInit
    /\ cycle = NoCycle
    /\ BootIdle
    /\ VgaIdle
    /\ KbdIdle
    /\ rg = NoRegion
    /\ \E a \in 0 .. UsizeMax, k \in Alignments, checks \in BOOLEAN :
          al = [NoAlign EXCEPT !.pc = "call", !.addr = a, !.align = k,
                               !.overflow_checks = checks]

\* align_up(addr, align)
AlignCall ==
    /\ al.pc = "call"
    /\ al' = IF al.overflow_checks /\ align_up_overflows(al.addr, al.align)
             THEN [al EXCEPT !.pc = "halt", !.panicked = TRUE]
             ELSE [al EXCEPT !.pc = "done", !.result = align_up(al.addr, al.align)]
    /\ UNCHANGED <<allocVars, cycleVars, bootVars, vgaVars, kbdVars, rg>>

\* align_up(align_up(addr, align), align)
AlignAgain ==
    /\ al.pc = "done"
    /\ al' = IF al.overflow_checks /\ align_up_overflows(al.result, al.align)
             THEN [al EXCEPT !.pc = "halt", !.panicked = TRUE]
             ELSE [al EXCEPT !.pc = "twice", !.again = align_up(al.result, al.align)]
    /\ UNCHANGED <<allocVars, cycleVars, bootVars, vgaVars, kbdVars, rg>>

AlignNext ==
    \/ AlignCall
    \/ AlignAgain

SpecAlign == AlignInit /\ [][AlignNext]_vars

\* C13: for every address a and power-of-two k, align_up(a, k) is the smallest
\* multiple of k that is >= a, the value of the remainder-based reference; an
\* aligned a is returned unchanged, and applying align_up twice gives the same
\* value as applying it once.
C13_EqualsReference ==
    /\ al.pc # "call" =>
          /\ ~al.panicked
          /\ al.result = SmallestMultiple(al.addr, al.align)
          /\ al.result = align_up_reference(al.addr, al.align)
          /\ al.addr % al.align = 0 => al.result = al.addr
    /\ al.pc = "twice" => al.again = al.result

\* C14: for every machine-word address a, those within k - 1 of the largest
\* address included, and every power-of-two k, align_up(a, k) returns a value
\* that is >= a and a multiple of k, with a + k - 1 evaluated in the word's
\* unsigned arithmetic.
C14_RoundsUpInWord ==
    al.pc # "call" =>
        /\ ~al.panicked
        /\ al.result >= al.addr
        /\ al.result % al.align = 0


\* ------------------------------------------------------------ the VGA writer

\* how many print! / println! calls a run makes
MaxPrints == 2

\* the bytes the printed texts are made of: newline, the two ends of the
\* printable range, and the first byte above it
TextBytes == {NEWLINE, 32, 126, 127}

RECURSIVE Texts(_)
Texts(n) ==
    IF n = 0 THEN {<<>>}
    ELSE LET shorter == Texts(n - 1)
         IN  shorter \cup {Append(t, b) : t \in {u \in shorter : Len(u) = n - 1}, b \in TextBytes}

\* Writer::clear_row
clear_row(w, row) ==
    [w EXCEPT !.chars[row] = [col \in 0 .. BUFFER_WIDTH - 1 |-> BLANK]]

\* new_line without the shift of the rows
new_line_noshift(w) ==
    [clear_row(w, BUFFER_HEIGHT - 1) EXCEPT !.column_position = 0]

\* Writer::new_line
new_line(w) ==
    LET shifted == [w EXCEPT !.chars =
                       [row \in 0 .. BUFFER_HEIGHT - 1 |->
                           IF row < BUFFER_HEIGHT - 1 THEN w.chars[row + 1] ELSE w.chars[row]]]
    IN  [clear_row(shifted, BUFFER_HEIGHT - 1) EXCEPT !.column_position = 0]

\* Writer::write_byte
write_byte(w, byte) ==
    IF byte = NEWLINE
    THEN new_line(w)
    ELSE LET w1 == IF w.column_position >= BUFFER_WIDTH THEN new_line(w) ELSE w
         IN  [w1 EXCEPT !.chars[BUFFER_HEIGHT - 1][w1.column_position] = byte,
                        !.column_position = @ + 1]

\* Writer::write_string
RECURSIVE write_string(_, _)
write_string(w, s) ==
    IF s = <<>> THEN w
    ELSE LET byte == Head(s)
             out == IF (byte >= 32 /\ byte <= 126) \/ byte = NEWLINE THEN byte ELSE UNPRINTABLE
         IN  write_string(write_byte(w, out), Tail(s))

\* print!(..) passes the text, println!(..) the text followed by "\n"
format_args(p) == IF p.op = "println" THEN Append(p.text, NEWLINE) ELSE p.text

\* the interrupted code runs only while no interrupt handler is active
Resumed(c) == c = "main" => kpc["irq"] = "idle"

\* kernel code calls print!(text) or println!(text)
PrintCall(c, op, text) ==
    /\ Resumed(c)
    /\ kpc[c] = "idle"
    /\ prints < MaxPrints
    /\ prints' = prints + 1
    /\ kctx' = [kctx EXCEPT ![c] = [op |-> op, text |-> text]]
    /\ kpc' = [kpc EXCEPT ![c] = "print_lock"]
    /\ UNCHANGED <<writer, writer_locked>>

\* _print: WRITER.lock() spins until the flag is free, then takes it
PrintLock(c) ==
    /\ Resumed(c)
    /\ kpc[c] = "print_lock"
    /\ IF ~writer_locked
       THEN /\ writer_locked' = TRUE
            /\ kpc' = [kpc EXCEPT ![c] = "print_write"]
       ELSE UNCHANGED <<writer_locked, kpc>>
    /\ UNCHANGED <<writer, kctx, prints>>

\* _print: write_fmt(args) on the locked writer, then the guard is dropped
PrintWrite(c) ==
    /\ Resumed(c)
    /\ kpc[c] = "print_write"
    /\ writer' = write_string(writer, format_args(kctx[c]))
    /\ writer_locked' = FALSE
    /\ kctx' = [kctx EXCEPT ![c] = NoPrint]
    /\ kpc' = [kpc EXCEPT ![c] = "idle"]
    /\ UNCHANGED prints

VgaInit ==
    /\ AllocInit
    /\ cycle = NoCycle
    /\ BootIdle
    /\ ExtIdle

VgaNext ==
    /\ \/ \E op \in {"print", "println"}, text \in Texts(BUFFER_WIDTH) : PrintCall("main", op, text)
       \/ PrintLock("main")
       \/ PrintWrite("main")
    /\ UNCHANGED <<allocVars, cycleVars, bootVars, alignVars, kbdVars>>

SpecVga == VgaInit /\ [][VgaNext]_vars

\* the text is printable ASCII without a newline and fits one row
FitsOneRow(text) ==
    /\ Len(text) <= BUFFER_WIDTH
    /\ \A i \in 1 .. Len(text) : text[i] >= 32 /\ text[i] <= 126

\* C16: for a writer at column 0 and a text of printable ASCII without newline
\* of at most BUFFER_WIDTH bytes, after println!(text) row BUFFER_HEIGHT - 2
\* holds the bytes of the text in order from column 0, and the writer is at
\* column 0 again.
C16_PrintlnRow ==
    [][(/\ kpc["main"] = "print_write"
        /\ kpc'["main"] = "idle"
        /\ kctx["main"].op = "println"
        /\ FitsOneRow(kctx["main"].text)
        /\ writer.column_position = 0) =>
           /\ \A i \in 1 .. Len(kctx["main"].text) :
                 writer'.chars[BUFFER_HEIGHT - 2][i - 1] = kctx["main"].text[i]
           /\ writer'.column_position = 0]_vars

C16_Witness ==
    /\ kpc["main"] = "idle"
    /\ prints = MaxPrints
    /\ writer.column_position = 0
    /\ \A col \in 0 .. BUFFER_WIDTH - 1 : writer.chars[BUFFER_HEIGHT - 2][col] = 126
    /\ writer.chars[BUFFER_HEIGHT - 3][0] = UNPRINTABLE


\* ------------------------------------------------------- the keyboard queue

\* ArrayQueue::new(100), scaled
QUEUE_CAPACITY == 2

Scancodes == {1, 2}

\* "WARNING: scancode queue full; dropping keyboard input", shortened
QueueFullWarning == <<126>>

\* "WARNING: scancode queue uninitialized", shortened
UninitWarning == <<126, 126>>

\* ScancodeStream::new: SCANCODE_QUEUE.try_init_once(|| ArrayQueue::new(100))
StreamNew ==
    /\ Resumed("main")
    /\ kpc["main"] = "idle"
    /\ ~scancode_queue.init
    /\ scancode_queue' = [init |-> TRUE, items |-> <<>>]
    /\ UNCHANGED <<vgaVars, waker>>

\* the keyboard interrupt arrives and its handler calls add_scancode(scancode)
KeyboardInterrupt(scancode) ==
    /\ kpc["irq"] = "idle"
    /\ kpc' = [kpc EXCEPT !["irq"] = "add_scancode"]
    /\ kctx' = [kctx EXCEPT !["irq"] = [op |-> "add_scancode", text |-> <<scancode>>]]
    /\ UNCHANGED <<writer, writer_locked, prints, kbdVars>>

\* add_scancode up to its println! or its return: try_get, push, WAKER.wake()
AddScancode ==
    /\ kpc["irq"] = "add_scancode"
    /\ IF ~scancode_queue.init
       THEN /\ kctx' = [kctx EXCEPT !["irq"] = [op |-> "println", text |-> UninitWarning]]
            /\ kpc' = [kpc EXCEPT !["irq"] = "print_lock"]
            /\ UNCHANGED kbdVars
       ELSE IF Len(scancode_queue.items) >= QUEUE_CAPACITY
       THEN /\ kctx' = [kctx EXCEPT !["irq"] = [op |-> "println", text |-> QueueFullWarning]]
            /\ kpc' = [kpc EXCEPT !["irq"] = "print_lock"]
            /\ UNCHANGED kbdVars
       ELSE /\ scancode_queue' = [scancode_queue EXCEPT !.items = Append(@, kctx["irq"].text[1])]
            /\ waker' = [waker EXCEPT !.registered = FALSE,
                                      !.woken = waker.woken \/ waker.registered]
            /\ kctx' = [kctx EXCEPT !["irq"] = NoPrint]
            /\ kpc' = [kpc EXCEPT !["irq"] = "idle"]
    /\ UNCHANGED <<writer, writer_locked, prints>>

\* poll_next is entered: the task runs, so its wake-up is consumed
PollNext ==
    /\ Resumed("main")
    /\ kpc["main"] = "idle"
    /\ scancode_queue.init
    /\ kpc' = [kpc EXCEPT !["main"] = "poll_fast"]
    /\ kctx' = [kctx EXCEPT !["main"] = [op |-> "poll_next", text |-> <<>>]]
    /\ waker' = [waker EXCEPT !.woken = FALSE, !.pending = FALSE]
    /\ UNCHANGED <<writer, writer_locked, prints, scancode_queue>>

\* poll_next: the fast path, queue.pop()
PollFast ==
    /\ Resumed("main")
    /\ kpc["main"] = "poll_fast"
    /\ IF scancode_queue.items # <<>>
       THEN /\ scancode_queue' = [scancode_queue EXCEPT !.items = Tail(@)]
            /\ kctx' = [kctx EXCEPT !["main"] = NoPrint]
            /\ kpc' = [kpc EXCEPT !["main"] = "idle"]
       ELSE /\ kpc' = [kpc EXCEPT !["main"] = "poll_register"]
            /\ UNCHANGED <<scancode_queue, kctx>>
    /\ UNCHANGED <<writer, writer_locked, prints, waker>>

\* poll_next: WAKER.register(cx.waker())
PollRegister ==
    /\ Resumed("main")
    /\ kpc["main"] = "poll_register"
    /\ waker' = [waker EXCEPT !.registered = TRUE]
    /\ kpc' = [kpc EXCEPT !["main"] = "poll_second"]
    /\ UNCHANGED <<writer, writer_locked, kctx, prints, scancode_queue>>

\* a poll_next that returns Pending after registering without a second pop
PollSecond_nopop ==
    /\ Resumed("main")
    /\ kpc["main"] = "poll_second"
    /\ waker' = [waker EXCEPT !.pending = TRUE]
    /\ kctx' = [kctx EXCEPT !["main"] = NoPrint]
    /\ kpc' = [kpc EXCEPT !["main"] = "idle"]
    /\ UNCHANGED <<writer, writer_locked, prints, scancode_queue>>

\* poll_next: the second queue.pop(), WAKER.take() on success, else Pending
PollSecond ==
    /\ Resumed("main")
    /\ kpc["main"] = "poll_second"
    /\ IF scancode_queue.items # <<>>
       THEN /\ scancode_queue' = [scancode_queue EXCEPT !.items = Tail(@)]
            /\ waker' = [waker EXCEPT !.registered = FALSE]
       ELSE /\ waker' = [waker EXCEPT !.pending = TRUE]
            /\ UNCHANGED scancode_queue
    /\ kctx' = [kctx EXCEPT !["main"] = NoPrint]
    /\ kpc' = [kpc EXCEPT !["main"] = "idle"]
    /\ UNCHANGED <<writer, writer_locked, prints>>

\* the steps of the interrupt handler once it has been entered
HandlerStep ==
    \/ AddScancode
    \/ PrintLock("irq") /\ UNCHANGED kbdVars
    \/ PrintWrite("irq") /\ UNCHANGED kbdVars

KbdInit ==
    /\ AllocInit
    /\ cycle = NoCycle
    /\ BootIdle
    /\ ExtIdle

KbdNext ==
    /\ \/ StreamNew
       \/ \E scancode \in Scancodes : KeyboardInterrupt(scancode)
       \/ HandlerStep
       \/ PollNext
       \/ PollFast
       \/ PollRegister
       \/ PollSecond
       \/ \E op \in {"print", "println"}, text \in Texts(1) :
             PrintCall("main", op, text) /\ UNCHANGED kbdVars
       \/ PrintLock("main") /\ UNCHANGED kbdVars
       \/ PrintWrite("main") /\ UNCHANGED kbdVars
    /\ UNCHANGED <<allocVars, cycleVars, bootVars, alignVars>>

SpecKeyboard == KbdInit /\ [][KbdNext]_vars

\* C15: add_scancode, called from the keyboard interrupt handler, never
\* blocks: in every reachable state in which the handler is inside
\* add_scancode (queue uninitialized, full or with room, the interrupted code
\* holding the WRITER lock or not) the handler can take a step that moves it on.
C15_NeverBlocks ==
    kpc["irq"] # "idle" => ENABLED <<HandlerStep>>_<<vgaVars, kbdVars>>


\* ------------------------------------- the linked list under one caller

\* the layouts of the sequential runs: a size below the node footprint with
\* alignment 1, an alignment above the node's, and sizes of one and a half and
\* two footprints
ListLayouts == {<<5, 1>>, <<16, 16>>, <<24, 8>>, <<32, 8>>}

\* regions near the heap's start and in the last words of the address space
RegionStarts ==
    {HEAP_START, HEAP_START + NodeAlign,
     UsizeModulus - 2 * NodeSize - NodeAlign, UsizeModulus - NodeSize - NodeAlign}

RegionSizes == {NodeSize, NodeSize + NodeAlign, 2 * NodeSize}

\* the adjusted requests: sizes and alignments as size_align returns them
RegionRequests ==
    {size_align(l[1], l[2]) : l \in ListLayouts \cup {<<2 * NodeSize, 2 * NodeSize>>}}

\* a run either drives the allocator (rg stays off) or calls alloc_from_region
\* once on a region and a request drawn here
ListInit ==
    /\ AllocInit
    /\ strategy = "linked_list"
    /\ cycle = NoCycle
    /\ BootIdle
    /\ al = NoAlign
    /\ VgaIdle
    /\ KbdIdle
    /\ \/ rg = NoRegion
       \/ \E start \in RegionStarts, rsize \in RegionSizes, req \in RegionRequests,
             checks \in BOOLEAN :
             /\ start + rsize <= UsizeMax
             /\ rg = [NoRegion EXCEPT !.pc = "call", !.start = start, !.rend = start + rsize,
                                      !.size = req.size, !.align = req.align,
                                      !.overflow_checks = checks]

\* alloc_from_region(region, size, align) for a region anywhere in memory
RegionCall ==
    /\ rg.pc = "call"
    /\ rg' = IF rg.overflow_checks /\ align_up_overflows(rg.start, rg.align)
             THEN [rg EXCEPT !.pc = "halt"]
             ELSE [rg EXCEPT !.pc = "done",
                             !.result = alloc_from_region(rg.start, rg.rend, rg.size, rg.align)]
    /\ UNCHANGED <<allocVars, cycleVars, bootVars, vgaVars, kbdVars, al>>

ListNext ==
    \/ /\ rg.pc = "off"
       /\ \/ HeapInit
          \/ \E l \in ListLayouts : CallAlloc("main", l)
          \/ \E b \in BagToSet(outstanding) : CallDealloc("main", b)
          \/ Lock("main")
          \/ AllocBody("main")
          \/ AllocExcess("main")
          \/ DeallocBody("main")
          \/ Return("main")
       /\ UNCHANGED <<cycleVars, bootVars, extVars>>
    \/ RegionCall

SpecList == ListInit /\ [][ListNext]_vars

\* C17: linked-list allocator: in every state reached by init (node-aligned
\* start, size of at least one node footprint) followed by allocs and matching
\* deallocs, every node of the free list has a size of at least the node
\* footprint and a start address aligned to the node alignment, and neither
\* assertion of add_free_region has failed.
C17_NodesWellFormed ==
    /\ ~panicked
    /\ \A i \in 1 .. Len(FreeList) :
          /\ mem[FreeList[i]].live
          /\ mem[FreeList[i]].size >= NodeSize
          /\ FreeList[i] % NodeAlign = 0

C17_Witness ==
    /\ Len(FreeList) >= 2
    /\ pc["main"] = "idle"
    /\ \E i \in 1 .. Len(FreeList) : FreeList[i] % (2 * NodeAlign) # 0


\* alloc_from_region succeeds for the node at address a
Fits(a, size, align) ==
    alloc_from_region(start_addr(a), end_addr(mem, a), size, align) # -1

\* the position in the free list of the first node that fits, 0 when none does
FirstFit(size, align) ==
    LET fitting == {i \in 1 .. Len(FreeList) : Fits(FreeList[i], size, align)}
    IN  IF fitting = {} THEN 0 ELSE CHOOSE i \in fitting : \A j \in fitting : i <= j

Remove(seq, k) == SubSeq(seq, 1, k - 1) \o SubSeq(seq, k + 1, Len(seq))

\* C18: find_region(size, align) selects the first node in list order for which
\* alloc_from_region succeeds, removes exactly that node and leaves every other
\* node, its size and the order of the others unchanged; when no node fits it
\* returns None and changes nothing.
C18_FirstFit ==
    [][(strategy = "linked_list" /\ pc["main"] = "alloc_body" /\ pc'["main"] # "alloc_body") =>
          LET size == ctx["main"].size
              align == ctx["main"].align
              k == FirstFit(size, align)
          IN  IF k = 0
              THEN /\ head' = head
                   /\ mem' = mem
                   /\ ctx'["main"].result = NULL
                   /\ pc'["main"] = "ret"
              ELSE /\ ctx'["main"].region = FreeList[k]
                   /\ ctx'["main"].rend = end_addr(mem, FreeList[k])
                   /\ ctx'["main"].result =
                         alloc_from_region(start_addr(FreeList[k]), end_addr(mem, FreeList[k]),
                                           size, align)
                   /\ FreeList' = Remove(FreeList, k)
                   /\ \A j \in 1 .. Len(FreeList) :
                         j # k => mem'[FreeList[j]].size = mem[FreeList[j]].size
                   /\ pc'["main"] = "alloc_excess"]_vars

\* find_region has passed over the first node and taken a later one
C18_Witness ==
    /\ pc["main"] = "alloc_excess"
    /\ head # NULL
    /\ ~Fits(head, ctx["main"].size, ctx["main"].align)
    /\ ctx["main"].region # NULL


\* the tail a region would keep behind an allocation ending at alloc_end
Tail_of(rend, alloc_end) == rend - alloc_end

\* C19: alloc_from_region rejects a region when alloc_start + size overflows,
\* when the allocation would end past the region's end, and when the tail
\* behind the allocation is nonzero but smaller than a node footprint, and
\* accepts it otherwise; a node rejected for its tail is passed over and the
\* search goes on to the next node, so the tail alloc puts back on the list is
\* never smaller than a node.
C19_RejectsBadFit ==
    /\ rg.pc = "done" =>
          LET alloc_start == align_up(rg.start, rg.align)
              alloc_end == alloc_start + rg.size
          IN  /\ alloc_end > UsizeMax => rg.result = -1
              /\ alloc_end > rg.rend => rg.result = -1
              /\ (Tail_of(rg.rend, alloc_end) > 0 /\ Tail_of(rg.rend, alloc_end) < NodeSize)
                    => rg.result = -1
              /\ (alloc_end <= UsizeMax /\ alloc_end <= rg.rend
                     /\ Tail_of(rg.rend, alloc_end) \notin 1 .. NodeSize - 1)
                    => rg.result = alloc_start
    /\ pc["main"] = "alloc_excess" =>
          LET tail == Tail_of(ctx["main"].rend, ctx["main"].result + ctx["main"].size)
          IN  /\ tail = 0 \/ tail >= NodeSize
              /\ ~panicked
    /\ \A i \in 1 .. Len(FreeList) : mem[FreeList[i]].size >= NodeSize

\* a node with a tail too small for the request stayed first on the list
\* while find_region took a later node
C19_Witness ==
    /\ pc["main"] = "alloc_excess"
    /\ head # NULL
    /\ Tail_of(end_addr(mem, head), align_up(head, ctx["main"].align) + ctx["main"].size)
          \in 1 .. NodeSize - 1

\* the byte at address a lies in a region of the free list
InFreeList(a) ==
    \E i \in 1 .. Len(FreeList) :
        FreeList[i] <= a /\ a < FreeList[i] + mem[FreeList[i]].size

\* C20: after a successful linked-list alloc, every byte of the region that
\* find_region removed lies in the returned block [alloc_start, alloc_start +
\* adjusted size) or in a region of the free list: nothing of the region is
\* held back as padding, whatever the requested alignment.
C20_NoPadding ==
    \A c \in Contexts :
        (strategy = "linked_list" /\ pc[c] = "ret" /\ ctx[c].op = "alloc"
            /\ ctx[c].result # NULL) =>
           \A a \in ctx[c].region .. ctx[c].rend - 1 :
               \/ ctx[c].result <= a /\ a < ctx[c].result + ctx[c].size
               \/ InFreeList(a)


\* C21: dealloc(address, layout) makes the node {address, adjusted size} the
\* first node of the free list, with the nodes listed before following it in
\* their previous order and with their sizes unchanged, wherever the address
\* lies; the adjusted size is the value alloc computed for the same layout.
C21_DeallocPushesFront ==
    [][/\ (pc["main"] = "idle" /\ pc'["main"] = "lock" /\ ctx'["main"].op = "dealloc") =>
              \E b \in BagToSet(outstanding) :
                  /\ outstanding' = outstanding (-) SetToBag({b})
                  /\ ctx'["main"].ptr = b.addr
                  /\ ctx'["main"].size = b.size
       /\ (strategy = "linked_list" /\ pc["main"] = "dealloc_body"
              /\ pc'["main"] # "dealloc_body") =>
              /\ head' = ctx["main"].ptr
              /\ mem'[head'].size = ctx["main"].size
              /\ FreeList' = <<ctx["main"].ptr>> \o FreeList
              /\ \A i \in 1 .. Len(FreeList) :
                    mem'[FreeList[i]].size = mem[FreeList[i]].size]_vars

\* a block was pushed in front of a node at a lower address
C21_Witness ==
    /\ pc["main"] = "ret"
    /\ ctx["main"].op = "dealloc"
    /\ Len(FreeList) >= 2
    /\ FreeList[1] = ctx["main"].ptr
    /\ FreeList[1] > FreeList[2]


\* the pairs of free-list positions whose regions touch: the first ends where
\* the second starts
AdjacentPairs ==
    {p \in (1 .. Len(FreeList)) \X (1 .. Len(FreeList)) :
        FreeList[p[1]] + mem[FreeList[p[1]]].size = FreeList[p[2]]}

\* two free regions that touch are two nodes, and neither fits a request for
\* their combined size
TouchingStayTwo ==
    \A p \in AdjacentPairs :
        LET both == mem[FreeList[p[1]]].size + mem[FreeList[p[2]]].size
        IN  /\ p[1] # p[2]
            /\ ~Fits(FreeList[p[1]], both, NodeAlign)
            /\ ~Fits(FreeList[p[2]], both, NodeAlign)

\* C22: the linked-list allocator never merges free regions: every dealloc
\* adds exactly one node to the free list, also when the freed block touches a
\* free region; a successful alloc removes one node and puts back one (a tail
\* is left: the count is unchanged) or none (the allocation ends at the
\* region's end: the count drops by one); two free regions that touch stay two
\* nodes, neither of which fits a request for their combined size, and such a
\* request fails when no single node fits it.
C22_NeverMerges ==
    /\ TouchingStayTwo
    /\ [][/\ TouchingStayTwo'
          /\ strategy = "linked_list" =>
             /\ (pc["main"] = "dealloc_body" /\ pc'["main"] # "dealloc_body") =>
                   Len(FreeList') = Len(FreeList) + 1
             /\ (pc["main"] = "alloc_body" /\ pc'["main"] = "alloc_excess") =>
                   Len(FreeList') = Len(FreeList) - 1
             /\ (pc["main"] = "alloc_body" /\ pc'["main"] = "ret") =>
                   /\ Len(FreeList') = Len(FreeList)
                   /\ ctx'["main"].result = NULL
             /\ (pc["main"] = "alloc_excess" /\ pc'["main"] = "ret") =>
                   Len(FreeList') = Len(FreeList)
                       + (IF ctx["main"].result + ctx["main"].size = ctx["main"].rend
                          THEN 0 ELSE 1)]_vars

\* a request for the combined size of two touching free regions has failed
C22_Witness ==
    /\ pc["main"] = "ret"
    /\ ctx["main"].op = "alloc"
    /\ ctx["main"].result = NULL
    /\ \E p \in AdjacentPairs :
          mem[FreeList[p[1]]].size + mem[FreeList[p[2]]].size = ctx["main"].size


\* ------------------------------------- add_free_region with any arguments

\* addresses in the heap window: node-aligned ones and ones that are not
AddStarts ==
    {HEAP_START, HEAP_START + NodeAlign \div 2, HEAP_START + NodeAlign,
     HEAP_START + NodeSize + 1, HEAP_START + NodeSize + NodeAlign}

\* sizes below, at and above the node footprint
AddSizes == {0, NodeAlign, NodeSize - 1, NodeSize, NodeSize + NodeAlign}

\* kernel code calls ALLOCATOR.lock().add_free_region(addr, size) once, between
\* two calls of alloc / dealloc
AddRegion(addr, size) ==
    /\ ~panicked
    /\ initCalls > 0
    /\ pc["main"] = "idle"
    /\ rg.pc = "off"
    /\ CanLock(locked)
    /\ LET r == add_free_region(head, mem, addr, size)
       IN  /\ head' = r.head
           /\ mem' = r.mem
           /\ panicked' = r.panic
    /\ rg' = [NoRegion EXCEPT !.pc = "added", !.start = addr, !.size = size]
    /\ UNCHANGED <<strategy, initCalls, bump, locked, pc, ctx, outstanding>>
    /\ UNCHANGED <<cycleVars, bootVars, vgaVars, kbdVars, al>>

AddInit ==
    /\ Init
    /\ strategy = "linked_list"

AddNext ==
    \/ /\ rg.pc = "off"
       /\ \/ HeapInit
          \/ \E l \in ListLayouts : CallAlloc("main", l)
          \/ \E b \in BagToSet(outstanding) : CallDealloc("main", b)
          \/ Lock("main")
          \/ AllocBody("main")
          \/ AllocExcess("main")
          \/ DeallocBody("main")
          \/ Return("main")
       /\ UNCHANGED <<cycleVars, bootVars, extVars>>
    \/ \E addr \in AddStarts, size \in AddSizes : AddRegion(addr, size)

SpecAdd == AddInit /\ [][AddNext]_vars

\* C23: add_free_region called with a size below one node footprint, or with
\* an address that is not aligned to the node's alignment, halts on its
\* assertion before a node is written and before the head is changed: the
\* free list is exactly as it was, and nothing runs afterwards.
C23_AssertBeforeWrite ==
    [][/\ (rg.pc = "off" /\ rg'.pc = "added"
              /\ (rg'.size < NodeSize \/ rg'.start % NodeAlign # 0)) =>
              /\ panicked'
              /\ head' = head
              /\ mem' = mem
              /\ FreeList' = FreeList
       /\ panicked => UNCHANGED vars]_vars

\* the call was refused while the free list held nodes
C23_Witness ==
    /\ rg.pc = "added"
    /\ rg.size >= NodeSize
    /\ rg.start % NodeAlign # 0
    /\ panicked
    /\ Len(FreeList) >= 2


\* ------------------------------------------- the frame allocator on its own

\* how many allocate_frame calls a run makes
MaxCalls == 8

\* the regions a memory map is built of here: one or two frames long, usable
\* or not
RegionKinds == {1, 2} \X BOOLEAN

\* the memory map made of the given kinds of region, laid out one after the
\* other from frame `first`
RECURSIVE MapOf(_, _)
MapOf(kinds, first) ==
    IF kinds = <<>> THEN <<>>
    ELSE <<Region(first, first + Head(kinds)[1], Head(kinds)[2])>>
         \o MapOf(Tail(kinds), first + Head(kinds)[1])

FrameMaps ==
    {MapOf(kinds, 1) : kinds \in UNION {[1 .. n -> RegionKinds] : n \in 0 .. 3}}

\* BootInfoFrameAllocator::init(memory_map)
FramesInit ==
    /\ AllocInit
    /\ cycle = NoCycle
    /\ ExtIdle
    /\ memory_map \in FrameMaps
    /\ frameNext = 0
    /\ pageTable = <<>>
    /\ needsTable = {}
    /\ boot = [NoBoot EXCEPT !.pc = "frames"]

\* one call of allocate_frame; frameLog keeps what each call returned
FrameCall ==
    /\ boot.pc = "frames"
    /\ Len(boot.frameLog) < MaxCalls
    /\ LET r == allocate_frame(memory_map, frameNext)
       IN  /\ frameNext' = r.next
           /\ boot' = [boot EXCEPT !.frameLog = Append(@, r.frame)]
    /\ UNCHANGED <<allocVars, cycleVars, memory_map, pageTable, needsTable, extVars>>

FramesNext ==
    \/ FrameCall

SpecFrames == FramesInit /\ [][FramesNext]_vars

\* the frames of the Usable regions, in memory-map order
RECURSIVE UsableFramesInOrder(_)
UsableFramesInOrder(map) ==
    IF map = <<>> THEN <<>>
    ELSE (IF Head(map).usable
          THEN range_inclusive(Head(map).start \div PAGE_SIZE,
                               (Head(map).end \div PAGE_SIZE) - 1)
          ELSE <<>>)
         \o UsableFramesInOrder(Tail(map))

\* C24: BootInfoFrameAllocator: the values successive allocate_frame calls
\* return are the frames of the Usable regions in memory-map order, each once,
\* and None on every call after the last of them; no frame is returned twice.
C24_FramesInOrder ==
    boot.pc = "frames" =>
        LET expected == UsableFramesInOrder(memory_map)
            returned == boot.frameLog
        IN  /\ \A i \in 1 .. Len(returned) :
                  returned[i] = IF i <= Len(expected) THEN expected[i] ELSE -1
            /\ \A i, j \in 1 .. Len(returned) :
                  (i # j /\ returned[i] # -1) => returned[i] # returned[j]

\* all frames of two usable regions around a reserved one were returned, then
\* None twice
C24_Witness ==
    /\ boot.pc = "frames"
    /\ Len(memory_map) = 3
    /\ memory_map[1].usable /\ ~memory_map[2].usable /\ memory_map[3].usable
    /\ Len(boot.frameLog) >= Len(UsableFramesInOrder(memory_map)) + 2
    /\ Len(UsableFramesInOrder(memory_map)) >= 3
    /\ boot.frameLog[Len(boot.frameLog)] = -1


\* the bytes [a, a + n) and [b, b + m) have none in common
Apart(a, n, b, m) == a + n <= b \/ b + m <= a

\* C25: linked-list allocator: in every state reached by one init and any
\* sequence of allocs and matching deallocs, the regions of the free list are
\* pairwise disjoint, each lies within [HEAP_START, HEAP_START + HEAP_SIZE),
\* none shares a byte with an outstanding block, and the list is finite and
\* acyclic: it ends in a null next field and no node is on it twice.
C25_FreeListSound ==
    strategy = "linked_list" =>
        /\ Len(FreeList) <= Cardinality(NodeSlots)
        /\ Len(FreeList) > 0 => mem[FreeList[Len(FreeList)]].next = NULL
        /\ \A i, j \in 1 .. Len(FreeList) :
              i # j =>
                 /\ FreeList[i] # FreeList[j]
                 /\ Apart(FreeList[i], mem[FreeList[i]].size,
                          FreeList[j], mem[FreeList[j]].size)
        /\ \A i \in 1 .. Len(FreeList) :
              /\ FreeList[i] >= HEAP_START
              /\ FreeList[i] + mem[FreeList[i]].size <= HEAP_END
              /\ \A b \in Outstanding :
                    Apart(FreeList[i], mem[FreeList[i]].size, b.addr, b.size)

C25_Witness ==
    /\ strategy = "linked_list"
    /\ pc["main"] = "idle"
    /\ Len(FreeList) >= 2
    /\ \E b \in Outstanding : b.lalign > NodeAlign


\* ------------------------------------------- dealloc followed by alloc

\* the driver's record of the dealloc it made last: the block, and the node
\* sequence before the call
Freed(phase, b, list) ==
    [mode |-> phase, layout |-> <<b.lsize, b.lalign>>, block |-> b, list |-> list]

ReuseInit ==
    /\ Init
    /\ strategy = "linked_list"

\* dealloc(p, L) of an outstanding block
ReuseDealloc(b) ==
    /\ CallDealloc("main", b)
    /\ cycle' = Freed("freeing", b, FreeList)
    /\ UNCHANGED <<bootVars, extVars>>

\* the next call is alloc(L) with the layout just freed
ReuseAlloc ==
    /\ cycle.mode = "freed"
    /\ CallAlloc("main", cycle.layout)
    /\ cycle' = [cycle EXCEPT !.mode = "realloc"]
    /\ UNCHANGED <<bootVars, extVars>>

\* the next call is an alloc with another layout, or not the next call
ReuseOtherAlloc(l) ==
    /\ cycle.mode = "freed" => l # cycle.layout
    /\ CallAlloc("main", l)
    /\ cycle' = NoCycle
    /\ UNCHANGED <<bootVars, extVars>>

ReuseReturn ==
    /\ Return("main")
    /\ cycle' = IF cycle.mode = "freeing" THEN [cycle EXCEPT !.mode = "freed"] ELSE NoCycle
    /\ UNCHANGED <<bootVars, extVars>>

ReuseStep ==
    /\ \/ HeapInit
       \/ Lock("main")
       \/ AllocBody("main")
       \/ AllocExcess("main")
       \/ DeallocBody("main")
    /\ UNCHANGED <<cycleVars, bootVars, extVars>>

ReuseNext ==
    \/ ReuseStep
    \/ \E b \in BagToSet(outstanding) : ReuseDealloc(b)
    \/ ReuseAlloc
    \/ \E l \in ListLayouts : ReuseOtherAlloc(l)
    \/ ReuseReturn

SpecReuse == ReuseInit /\ [][ReuseNext]_vars

\* C26: linked-list allocator: dealloc(p, L) followed at once by alloc(L) with
\* the same layout returns the address p, and the free list is again the node
\* sequence it was before the dealloc.
C26_DeallocThenAlloc ==
    (cycle.mode = "realloc" /\ pc["main"] = "ret") =>
        /\ ctx["main"].result = cycle.block.addr
        /\ FreeList = cycle.list
        /\ \A i \in 1 .. Len(FreeList) : mem[FreeList[i]].size >= NodeSize

\* the block came back although an earlier node of the list also fits
C26_Witness ==
    /\ cycle.mode = "realloc"
    /\ pc["main"] = "ret"
    /\ ctx["main"].result = cycle.block.addr
    /\ Len(cycle.list) >= 2
    /\ cycle.block.lalign > NodeAlign


\* ------------------------------------------------------ no lost wake-up

\* a task whose poll_next returned Pending and that has not been woken finds
\* no scancode in the queue, and its waker is still registered
WakeupKept ==
    (waker.pending /\ ~waker.woken) =>
        /\ scancode_queue.items = <<>>
        /\ waker.registered

\* C27: no lost wake-up in poll_next: in every interleaving of poll_next with
\* the keyboard interrupt, once poll_next has returned Pending a scancode
\* pushed during or after the call wakes the registered waker: the task is
\* never Pending and unwoken while the queue holds a scancode, and while it is
\* Pending and unwoken its waker stays registered.
C27_NoLostWakeup ==
    /\ WakeupKept
    /\ [][/\ WakeupKept'
          /\ (/\ waker.pending
              /\ Len(scancode_queue'.items) > Len(scancode_queue.items)) =>
                 waker'.woken]_vars

\* the task returned Pending, the interrupt pushed a scancode afterwards and
\* took the waker to wake the task
C27_Witness ==
    /\ waker.pending
    /\ waker.woken
    /\ ~waker.registered
    /\ scancode_queue.items # <<>>
    /\ kpc["main"] = "idle"
    /\ kpc["irq"] = "idle"

====
